---- MODULE Spec2Model ----
(***************************************************************************)
(* The licenseQuantityGrid Lightning web component (latest revision,       *)
(* src/unnamed/part_001): an editable grid of license quantities per grade *)
(* and contract year, with a computed totals row, a pending-change map, a  *)
(* ceiling validation and a save / cancel life cycle over two wired Apex   *)
(* reads and one imperative Apex write.                                    *)
(***************************************************************************)
EXTENDS Integers, Sequences, FiniteSets, TLC

VARIABLES
    configData,           \* this.configData: Undefined or a configuration record
    originalLicenseData,  \* this.originalLicenseData: the records of the last data response
    gridData,             \* this.gridData: sequence of rows
    pendingChanges,       \* this.pendingChanges: a JS Map, as its entries in insertion order
    draftValues,          \* this.draftValues: the edit buffer
    hasChanges,           \* this.hasChanges
    isLoading,            \* this.isLoading
    savePc,               \* position of the async handleSave: "idle", "persisting", "refreshing"
    changes,              \* handleSave's local `changes`, the argument of the persist call in flight
    configPending,        \* a getCustomerSuccessModuleConfig response is outstanding
    recordsPending,       \* who waits for a getLicenseData response: "none", "load", "save", "cancel"
    toasts,               \* the ShowToastEvents dispatched by the last handler that ran
    lastOp,               \* history: the last handler that ran, the branch it took, its input
    recordsLoaded,        \* history: a getLicenseData response with data has arrived
    atSave,               \* history: pending changes, edit buffer and edit count when the
                          \*          persist call in flight was issued
    nEdits,               \* history: number of edit batches so far
    nEmits,               \* history: number of re-emissions of the configuration wire so far
    editedCells,          \* history: the cells edited since the last successful save or
                          \*          cancel, each with the quantity last entered
    refreshError,         \* the error the refresh awaited by handleSave failed with, if it did
    fnCall,               \* a method of the component called on its own: its name and arguments
    fnResult              \* what that call returned

vars == << configData, originalLicenseData, gridData, pendingChanges, draftValues,
           hasChanges, isLoading, savePc, changes, configPending, recordsPending, toasts,
           lastOp, recordsLoaded, atSave, nEdits, nEmits, editedCells, refreshError, fnCall, fnResult >>

(***************************************************************************)
(* Bound of the model: the number of edit batches and of re-emissions of   *)
(* the configuration wire in a behaviour, taken together.                  *)
(***************************************************************************)
MaxInputs == 2

(***************************************************************************)
(* JavaScript values: a tagged record per type.                            *)
(***************************************************************************)
Null == [t |-> "null"]
Undefined == [t |-> "undefined"]
NaN == [t |-> "NaN"]
Num(n) == [t |-> "number", v |-> n]
Str(s) == [t |-> "string", s |-> s]

\* The integer a string starts with, for the strings the model feeds in; a
\* string outside this table starts with no integer.
\* a reading that stops after the first digit
IntPrefixOfOneDigit ==
    ("0" :> 0) @@ ("1" :> 1) @@ ("2" :> 2) @@ ("3" :> 3) @@ ("-1" :> -1) @@ ("1x" :> 1)
    @@ ("10" :> 1) @@ ("70" :> 7)

IntPrefix ==
    ("0" :> 0) @@ ("1" :> 1) @@ ("2" :> 2) @@ ("3" :> 3) @@ ("-1" :> -1) @@ ("1x" :> 1)
    @@ ("10" :> 10) @@ ("70" :> 70)

\* parseInt(value, 10)
ParseInt(value) ==
    CASE value.t = "number" -> value
      [] value.t = "string" ->
            IF value.s \in DOMAIN IntPrefix THEN Num(IntPrefix[value.s]) ELSE NaN
      [] OTHER -> NaN

\* value === null || value === undefined || value === ''
IsBlank(value) == value = Null \/ value = Undefined \/ value = Str("")

Max(a, b) == IF a >= b THEN a ELSE b

(***************************************************************************)
(* A JS Map: its entries [key, value] in insertion order.                  *)
(***************************************************************************)
MapHas(m, k) == \E i \in 1..Len(m) : m[i].key = k

MapGet(m, k) ==
    IF MapHas(m, k) THEN m[CHOOSE i \in 1..Len(m) : m[i].key = k].value ELSE Undefined

\* a set that appends an entry whether or not the key is there
MapSetAppend(m, k, v) == Append(m, [key |-> k, value |-> v])

\* Map.prototype.set: an existing key keeps its place and takes the new value.
MapSet(m, k, v) ==
    IF MapHas(m, k)
    THEN [i \in 1..Len(m) |-> IF m[i].key = k THEN [key |-> k, value |-> v] ELSE m[i]]
    ELSE Append(m, [key |-> k, value |-> v])

\* the values of a map without the last one
MapValuesButLast(m) == [i \in 1..(Len(m) - 1) |-> m[i].value]

\* Array.from(map.values())
MapValues(m) == [i \in 1..Len(m) |-> m[i].value]

\* the template string `${grade}_${year}`
\* a key that leaves the year out
KeyOfGrade(grade, year) == << grade >>

Key(grade, year) == << grade, year >>

(***************************************************************************)
(* Fixed data of the component.                                            *)
(***************************************************************************)
gradeLabels == << "K", "1", "2", "3", "4", "5", "6", "7", "8" >>

\* identifiers that count the rows from 1
rowIdsFromOne ==
    << "row-1", "row-2", "row-3", "row-4", "row-5", "row-6", "row-7", "row-8", "row-9" >>

\* `row-${index}` for index 0..8, listed by position in gradeLabels
rowIds ==
    << "row-0", "row-1", "row-2", "row-3", "row-4", "row-5", "row-6", "row-7", "row-8" >>

TotalsRowId == "totals-row"

DefaultContractLength == 7

\* configData.F5_Contract_Length__c ? parseInt(.., 10) : 7   (0 stands for an unset field)
MaxYears(config) ==
    IF config.F5_Contract_Length__c # 0
    THEN config.F5_Contract_Length__c
    ELSE DefaultContractLength

\* row[`year${y}`]: an absent field reads undefined
Field(row, y) == IF y \in DOMAIN row.years THEN row.years[y] ELSE Undefined

(***************************************************************************)
(* columns, getYearLabel                                                   *)
(***************************************************************************)
\* A label is the literal `Year i`, a formatted date or null.
YearLiteral(i) == [t |-> "literal", year |-> i]

\* addYearsToDateString(dateString, yearsToAdd): an ISO date string; null when
\* toISOString throws on an invalid date.  A date is "" (unset), "valid" or "invalid".
addYearsToDateString(dateString, yearsToAdd) ==
    IF dateString = "" THEN Null
    ELSE IF dateString = "invalid" THEN Null
    ELSE [t |-> "isoDate", of |-> dateString, plus |-> yearsToAdd]

\* americanDateFormat(inputDate): MM/DD/YYYY of the date, null when there is none
\* or it is invalid.
americanDateFormat(inputDate) ==
    IF inputDate = Null \/ inputDate = Str("") THEN Null
    ELSE IF inputDate = Str("invalid") THEN Null
    ELSE [t |-> "formatted", date |-> inputDate]

ColumnLabel(config, i) ==
    IF i = 1
    THEN IF config.F5_LMS_Start_Date__c # ""
         THEN americanDateFormat(Str(config.F5_LMS_Start_Date__c))
         ELSE YearLiteral(1)
    ELSE IF config.F5_Initial_Renewal_date__c # ""
         THEN americanDateFormat(addYearsToDateString(config.F5_Initial_Renewal_date__c, i - 2))
         ELSE YearLiteral(i)

\* the column list with the default of five year columns
columnsOfFive(config) ==
    IF config = Undefined THEN << >>
    ELSE LET maxCols == IF config.F5_Contract_Length__c # 0
                        THEN config.F5_Contract_Length__c ELSE 5
         IN  [k \in 1..(maxCols + 1) |->
                IF k = 1
                THEN [label |-> Str("Grade"), fieldName |-> 0, editable |-> FALSE]
                ELSE [label |-> ColumnLabel(config, k - 1), fieldName |-> k - 1,
                      editable |-> TRUE]]

\* get columns(): fieldName 0 is 'grade', fieldName i is `year${i}`
columns(config) ==
    IF config = Undefined THEN << >>
    ELSE [k \in 1..(MaxYears(config) + 1) |->
            IF k = 1
            THEN [label |-> Str("Grade"), fieldName |-> 0, editable |-> FALSE]
            ELSE [label |-> ColumnLabel(config, k - 1), fieldName |-> k - 1, editable |-> TRUE]]

\* a label for messages that is always the literal
getYearLabelLiteral(config, yearNum) == YearLiteral(yearNum)

getYearLabel(config, yearNum) ==
    LET cols == columns(config)
    IN  IF yearNum + 1 \in DOMAIN cols THEN cols[yearNum + 1].label ELSE YearLiteral(yearNum)

(***************************************************************************)
(* calculateTotals, processLicenseData, validateTotals                     *)
(***************************************************************************)
\* (value === null || value === undefined || value === '') ? 0 : parseInt(value, 10),
\* then isNaN(numValue) ? 0 : numValue
NumValue(value) ==
    IF IsBlank(value) THEN 0
    ELSE IF ParseInt(value) = NaN THEN 0 ELSE ParseInt(value).v

RECURSIVE ReduceYear(_, _)
ReduceYear(dataRows, y) ==
    IF dataRows = << >> THEN 0
    ELSE ReduceYear(SubSeq(dataRows, 1, Len(dataRows) - 1), y)
            + NumValue(Field(dataRows[Len(dataRows)], y))

calculateTotals(dataRows, maxYears) ==
    [id |-> TotalsRowId, grade |-> "Total",
     years |-> [y \in 1..maxYears |-> Num(ReduceYear(dataRows, y))]]

RECURSIVE DataMap(_)
DataMap(data) ==
    IF data = << >> THEN << >>
    ELSE MapSet(DataMap(SubSeq(data, 1, Len(data) - 1)),
                Key(data[Len(data)].Grade_Level__c, data[Len(data)].Year__c),
                data[Len(data)].License_Quantity__c)

\* the builder with `dataMap.get(key) || null`: a quantity of 0 read as null
processLicenseDataOrNull(config, data) ==
    LET dataMap == DataMap(data)
        maxYears == MaxYears(config)
        mainData == [i \in 1..Len(gradeLabels) |->
            [id |-> rowIds[i], grade |-> gradeLabels[i],
             years |-> [y \in 1..maxYears |->
                LET value == MapGet(dataMap, Key(gradeLabels[i], y))
                IN  IF value = Null \/ value = Undefined \/ value = Num(0)
                    THEN Null ELSE ParseInt(value)]]]
    IN  Append(mainData, calculateTotals(mainData, maxYears))

\* the rows processLicenseData assigns to gridData (configData is set)
processLicenseData(config, data) ==
    LET dataMap == DataMap(data)
        maxYears == MaxYears(config)
        mainData == [i \in 1..Len(gradeLabels) |->
            [id |-> rowIds[i], grade |-> gradeLabels[i],
             years |-> [y \in 1..maxYears |->
                LET value == MapGet(dataMap, Key(gradeLabels[i], y))
                IN  IF value = Null \/ value = Undefined THEN Null ELSE ParseInt(value)]]]
    IN  Append(mainData, calculateTotals(mainData, maxYears))

\* a pass that also reports a year whose total equals the ceiling
RECURSIVE ValidationErrorsAtCeiling(_, _, _)
ValidationErrorsAtCeiling(config, dataRows, year) ==
    IF year > MaxYears(config) THEN << >>
    ELSE LET total == ReduceYear(dataRows, year)
             maxLicense == config.F5_Maximum_License__c
         IN  (IF total >= maxLicense
              THEN << [label |-> getYearLabel(config, year), total |-> total,
                       max |-> maxLicense] >>
              ELSE << >>) \o ValidationErrorsAtCeiling(config, dataRows, year + 1)

RECURSIVE ValidationErrors(_, _, _)
ValidationErrors(config, dataRows, year) ==
    IF year > MaxYears(config) THEN << >>
    ELSE LET total == ReduceYear(dataRows, year)
             maxLicense == config.F5_Maximum_License__c
         IN  (IF total > maxLicense
              THEN << [label |-> getYearLabel(config, year), total |-> total,
                       max |-> maxLicense] >>
              ELSE << >>) \o ValidationErrors(config, dataRows, year + 1)

\* a validator that never reports a year (the check left out)
validateTotalsSkipped(config, dataRows) == [isValid |-> TRUE, errors |-> << >>]

validateTotals(config, dataRows) ==
    IF config = Undefined \/ config.F5_Maximum_License__c = 0
    THEN [isValid |-> TRUE, errors |-> << >>]
    ELSE LET errors == ValidationErrors(config, dataRows, 1)
         IN  [isValid |-> Len(errors) = 0, errors |-> errors]

IsDataRow(row) == row.id # TotalsRowId

Toast(title, message, variant) == [title |-> title, message |-> message, variant |-> variant]

(***************************************************************************)
(* Inputs                                                                  *)
(***************************************************************************)
Config(len, max) ==
    [F5_Contract_Length__c |-> len, F5_Maximum_License__c |-> max,
     F5_LMS_Start_Date__c |-> "", F5_Initial_Renewal_date__c |-> ""]

Configs == { Config(2, 2), Config(0, 0) }

Record(grade, year, quantity) ==
    [Grade_Level__c |-> grade, Year__c |-> year, License_Quantity__c |-> quantity]

RecordLists ==
    { << >>,
      << Record("K", 1, Num(0)), Record("1", 1, Num(1)), Record("K", 1, Num(1)),
         Record("2", 2, Num(1)), Record("3", 2, Num(0)), Record("4", 1, Null) >> }

FetchErrors == { [hasBody |-> TRUE, message |-> "Script-thrown exception"],
                 [hasBody |-> FALSE, message |-> ""] }

\* what saveLicenseData rejects with
SaveErrors ==
    { [present |-> TRUE, bodyMessage |-> "Insufficient access", message |-> "ignored"],
      [present |-> TRUE, bodyMessage |-> "", message |-> "Network error"],
      [present |-> TRUE, bodyMessage |-> "", message |-> ""],
      [present |-> FALSE, bodyMessage |-> "", message |-> ""] }

Op(op, arg) == [op |-> op, arg |-> arg]

NoSave == [pendingChanges |-> << >>, draftValues |-> << >>, nEdits |-> 0]

NoCall == [fn |-> "none"]

Init ==
    /\ configData = Undefined
    /\ originalLicenseData = << >>
    /\ gridData = << >>
    /\ pendingChanges = << >>
    /\ draftValues = << >>
    /\ hasChanges = FALSE
    /\ isLoading = FALSE
    /\ savePc = "idle"
    /\ changes = << >>
    /\ configPending = TRUE
    /\ recordsPending = "load"
    /\ toasts = << >>
    /\ lastOp = Op("constructor", << >>)
    /\ recordsLoaded = FALSE
    /\ atSave = NoSave
    /\ nEdits = 0
    /\ nEmits = 0
    /\ editedCells = << >>
    /\ refreshError = Undefined
    /\ fnCall = NoCall
    /\ fnResult = Undefined

(***************************************************************************)
(* wiredConfig(result)                                                     *)
(***************************************************************************)
ConfigArrives ==
    /\ configPending \/ nEdits + nEmits < MaxInputs
    /\ nEmits' = IF configPending THEN nEmits ELSE nEmits + 1
    /\ configPending' = FALSE

WiredConfigDataOf(configs) ==
    /\ ConfigArrives
    /\ \E data \in configs :
        /\ configData' = data
        /\ gridData' = IF Len(originalLicenseData) > 0
                       THEN processLicenseData(data, originalLicenseData)
                       ELSE gridData
        /\ lastOp' = Op("wiredConfig:data", data)
    /\ toasts' = << >>
    /\ UNCHANGED << originalLicenseData, pendingChanges, draftValues, hasChanges, isLoading,
                    savePc, changes, recordsPending, recordsLoaded, atSave, nEdits >>
    /\ UNCHANGED << editedCells, refreshError, fnCall, fnResult >>

WiredConfigData == WiredConfigDataOf(Configs)

\* an error branch that stores result.data, undefined, as the configuration
WiredConfigErrorClearsConfig ==
    /\ ConfigArrives
    /\ configData' = Undefined
    /\ toasts' = << Toast("Error", [kind |-> "text", s |-> "Failed to load configuration data"],
                          "error") >>
    /\ lastOp' = Op("wiredConfig:error", << >>)
    /\ UNCHANGED << originalLicenseData, gridData, pendingChanges, draftValues,
                    hasChanges, isLoading, savePc, changes, recordsPending, recordsLoaded,
                    atSave, nEdits >>
    /\ UNCHANGED << editedCells, refreshError, fnCall, fnResult >>

WiredConfigError ==
    /\ ConfigArrives
    /\ toasts' = << Toast("Error", [kind |-> "text", s |-> "Failed to load configuration data"],
                          "error") >>
    /\ lastOp' = Op("wiredConfig:error", << >>)
    /\ UNCHANGED << configData, originalLicenseData, gridData, pendingChanges, draftValues,
                    hasChanges, isLoading, savePc, changes, recordsPending, recordsLoaded,
                    atSave, nEdits >>
    /\ UNCHANGED << editedCells, refreshError, fnCall, fnResult >>

(***************************************************************************)
(* wiredGetLicenseData(result)                                             *)
(***************************************************************************)
RecordsArrive ==
    /\ recordsPending # "none"
    /\ recordsPending' = "none"

WiredGetLicenseDataDataOf(recordLists) ==
    /\ RecordsArrive
    /\ \E data \in recordLists :
        /\ originalLicenseData' = data
        /\ gridData' = IF configData # Undefined
                       THEN processLicenseData(configData, data)
                       ELSE gridData
        /\ lastOp' = Op("wiredGetLicenseData:data", [data |-> data, for |-> recordsPending])
    /\ recordsLoaded' = TRUE
    /\ toasts' = << >>
    /\ UNCHANGED << configData, pendingChanges, draftValues, hasChanges, isLoading, savePc,
                    changes, configPending, atSave, nEdits, nEmits >>
    /\ UNCHANGED << editedCells, refreshError, fnCall, fnResult >>

WiredGetLicenseDataData == WiredGetLicenseDataDataOf(RecordLists)

\* result.error.body.message: an error without a body makes the handler throw
\* before it dispatches the toast
WiredGetLicenseDataError ==
    /\ RecordsArrive
    /\ \E error \in FetchErrors :
        /\ toasts' = IF error.hasBody
                     THEN << Toast("Error", [kind |-> "loadFailed", detail |-> error.message],
                                   "error") >>
                     ELSE << >>
        /\ lastOp' = Op(IF error.hasBody THEN "wiredGetLicenseData:error"
                                         ELSE "wiredGetLicenseData:threw",
                        [error |-> error, for |-> recordsPending])
        /\ refreshError' = IF savePc = "refreshing" THEN error ELSE refreshError
    /\ UNCHANGED << configData, originalLicenseData, gridData, pendingChanges, draftValues,
                    hasChanges, isLoading, savePc, changes, configPending, recordsLoaded,
                    atSave, nEdits, nEmits >>
    /\ UNCHANGED << editedCells, fnCall, fnResult >>

(***************************************************************************)
(* handleDraftValueChange(event)                                           *)
(***************************************************************************)
\* a grid coercion that writes 0 for a blank input
GridValueBlankAsZero(value) ==
    IF IsBlank(value) THEN Num(0)
    ELSE LET intValue == ParseInt(value)
         IN  IF intValue = NaN THEN Null ELSE Num(Max(0, intValue.v))

\* a grid coercion without Math.max
GridValueAnySign(value) ==
    IF IsBlank(value) THEN Null
    ELSE LET intValue == ParseInt(value)
         IN  IF intValue = NaN THEN Null ELSE intValue

\* the value written to the grid cell (lines 241-248)
GridValue(value) ==
    IF IsBlank(value) THEN Null
    ELSE LET intValue == ParseInt(value)
         IN  IF intValue = NaN THEN Null ELSE Num(Max(0, intValue.v))

\* a pending coercion without the test for a negative number
PendingQuantityAnySign(value) ==
    IF ~IsBlank(value)
    THEN LET parsed == ParseInt(value)
         IN  IF parsed = NaN THEN Null ELSE parsed
    ELSE Null

\* the quantity written to the pending change (lines 278-287)
PendingQuantity(value) ==
    IF ~IsBlank(value)
    THEN LET parsed == ParseInt(value)
         IN  IF parsed = NaN \/ parsed.v < 0 THEN Null ELSE parsed
    ELSE Null

HasDraft(drafts, id) == \E i \in 1..Len(drafts) : drafts[i].id = id

\* filteredDraftValues.find(d => d.id === row.id): the first match
FindDraft(drafts, id) == drafts[CHOOSE i \in 1..Len(drafts) :
                            /\ drafts[i].id = id
                            /\ \A j \in 1..(i - 1) : drafts[j].id # id]

HasField(draft, y) == \E i \in 1..Len(draft.fields) : draft.fields[i].year = y

DraftField(draft, y) ==
    draft.fields[CHOOSE i \in 1..Len(draft.fields) : draft.fields[i].year = y].value

\* { ...row } with every non-id key of the draft written as GridValue
ApplyDraft(row, draft) ==
    [row EXCEPT !.years =
        [y \in DOMAIN row.years \cup { draft.fields[i].year : i \in 1..Len(draft.fields) } |->
            IF HasField(draft, y) THEN GridValue(DraftField(draft, y)) ELSE row.years[y]]]

UpdatedDataRows(rows, drafts) ==
    LET currentDataRows == SelectSeq(rows, IsDataRow)
    IN  [i \in 1..Len(currentDataRows) |->
            IF HasDraft(drafts, currentDataRows[i].id)
            THEN ApplyDraft(currentDataRows[i], FindDraft(drafts, currentDataRows[i].id))
            ELSE currentDataRows[i]]

\* configData ? parseInt(F5_Contract_Length__c, 10) || 7 : 7
EditMaxYears(config) ==
    IF config # Undefined
    THEN (IF config.F5_Contract_Length__c # 0 THEN config.F5_Contract_Length__c
          ELSE DefaultContractLength)
    ELSE DefaultContractLength

RECURSIVE SetFields(_, _, _)
SetFields(m, grade, fields) ==
    IF fields = << >> THEN m
    ELSE SetFields(MapSet(m, Key(grade, Head(fields).year),
                          [grade |-> grade, year |-> Head(fields).year,
                           quantity |-> PendingQuantity(Head(fields).value)]),
                   grade, Tail(fields))

HasRow(rows, id) == \E i \in 1..Len(rows) : rows[i].id = id

FindRow(rows, id) == rows[CHOOSE i \in 1..Len(rows) : rows[i].id = id]

RECURSIVE UpdatedPendingChanges(_, _, _)
UpdatedPendingChanges(m, rows, drafts) ==
    IF drafts = << >> THEN m
    ELSE UpdatedPendingChanges(
            IF HasRow(rows, Head(drafts).id)
            THEN SetFields(m, FindRow(rows, Head(drafts).id).grade, Head(drafts).fields)
            ELSE m,
            rows, Tail(drafts))

\* a raw cell input read as a quantity: itself when it is a non-negative
\* integer (a number, or its decimal text), null otherwise
Decimal ==
    ("0" :> 0) @@ ("1" :> 1) @@ ("2" :> 2) @@ ("3" :> 3) @@ ("10" :> 10) @@ ("70" :> 70)

AsQuantity(raw) ==
    IF raw.t = "number" /\ raw.v >= 0 THEN raw
    ELSE IF raw.t = "string" /\ raw.s \in DOMAIN Decimal THEN Num(Decimal[raw.s])
    ELSE Null

GradeOf(id) == gradeLabels[CHOOSE i \in 1..Len(rowIds) : rowIds[i] = id]

\* the cell edits of a batch in the order given: one [grade, year, value] per
\* field of each draft that targets a category row
RECURSIVE CellEdits(_)
CellEdits(batch) ==
    IF batch = << >> THEN << >>
    ELSE (IF Head(batch).id = TotalsRowId THEN << >>
          ELSE [j \in 1..Len(Head(batch).fields) |->
                    [grade |-> GradeOf(Head(batch).id),
                     year |-> Head(batch).fields[j].year,
                     value |-> Head(batch).fields[j].value]])
         \o CellEdits(Tail(batch))

\* the history of edited cells after a batch: every cell the batch edits is
\* filed with the quantity of the batch's last edit of it
LastEdits(cells, batch) ==
    LET edits == CellEdits(batch)
        keys == { << edits[k].grade, edits[k].year >> : k \in 1..Len(edits) }
        LastOf(key) == CHOOSE k \in 1..Len(edits) :
                          /\ << edits[k].grade, edits[k].year >> = key
                          /\ \A l \in (k + 1)..Len(edits) :
                                << edits[l].grade, edits[l].year >> # key
    IN  [key \in DOMAIN cells \cup keys |->
            IF key \in keys THEN AsQuantity(edits[LastOf(key)].value) ELSE cells[key]]

\* a filter that lets the totals row through
IsAnyDraft(draft) == draft.id = draft.id

IsEditableDraft(draft) == draft.id # TotalsRowId

\* the raw cell values the datatable hands over
RawValues == { Str(""), Str("abc"), Num(-1), Num(0), Str("2") }

Draft(id, fields) == [id |-> id, fields |-> fields]

Cell(y, v) == [year |-> y, value |-> v]

\* the edit batches: one cell of the first row; a later cell of it; a cell of the
\* totals row; a totals-row draft with a category-row draft; two drafts for one row
DraftBatches ==
    { << Draft("row-0", << Cell(1, v) >>) >> : v \in RawValues }
    \cup { << Draft("row-0", << Cell(2, Str("2")) >>) >>,
           << Draft(TotalsRowId, << Cell(1, Str("2")) >>) >>,
           << Draft(TotalsRowId, << Cell(2, Str("2")) >>),
              Draft("row-0", << Cell(2, Num(0)) >>) >>,
           << Draft("row-0", << Cell(1, Num(0)) >>),
              Draft("row-0", << Cell(2, Str("2")) >>) >> }

\* a batch the datatable can emit: its rows are displayed, its fields are columns
IsDisplayed(batch, rows, config) ==
    \A i \in 1..Len(batch) :
        /\ HasRow(rows, batch[i].id)
        /\ \A j \in 1..Len(batch[i].fields) :
            \E k \in DOMAIN columns(config) :
                /\ columns(config)[k].fieldName = batch[i].fields[j].year
                /\ columns(config)[k].editable

ValidationMessage(kind, errors) == [kind |-> kind, errors |-> errors]

HandleDraftValueChangeOf(batches) ==
    /\ gridData # << >>
    /\ nEdits + nEmits < MaxInputs
    /\ nEdits' = nEdits + 1
    /\ \E batch \in batches :
        /\ IsDisplayed(batch, gridData, configData)
        /\ LET filteredDraftValues == SelectSeq(batch, IsEditableDraft)
               updatedDataRows == UpdatedDataRows(gridData, filteredDraftValues)
               totalsRow == calculateTotals(updatedDataRows, EditMaxYears(configData))
               validation == validateTotals(configData, updatedDataRows)
           IN  IF Len(filteredDraftValues) = 0
               THEN /\ draftValues' = << >>
                    /\ toasts' = << >>
                    /\ lastOp' = Op("handleDraftValueChange:filtered", batch)
                    /\ editedCells' = editedCells
                    /\ UNCHANGED << hasChanges, gridData, pendingChanges >>
               ELSE /\ hasChanges' = TRUE
                    /\ draftValues' = filteredDraftValues
                    /\ gridData' = Append(updatedDataRows, totalsRow)
                    /\ pendingChanges' = UpdatedPendingChanges(pendingChanges, updatedDataRows,
                                                               filteredDraftValues)
                    /\ toasts' = IF ~validation.isValid
                                 THEN << Toast("Warning",
                                               ValidationMessage("warning", validation.errors),
                                               "warning") >>
                                 ELSE << >>
                    /\ lastOp' = Op("handleDraftValueChange:applied", batch)
                    /\ editedCells' = LastEdits(editedCells, batch)
    /\ UNCHANGED << configData, originalLicenseData, isLoading, savePc, changes,
                    configPending, recordsPending, recordsLoaded, atSave, nEmits >>
    /\ UNCHANGED << refreshError, fnCall, fnResult >>

HandleDraftValueChange == HandleDraftValueChangeOf(DraftBatches)

(***************************************************************************)
(* handleSave(), an async function: its synchronous part up to the persist *)
(* call, the continuation after the persist call, and the continuation     *)
(* after the refresh.  The save and cancel buttons are disabled while      *)
(* isLoading, so no second persist call starts while one is in flight.     *)
(***************************************************************************)
\* a save control that ignores isLoading
saveButtonDisabledWhenClean == ~hasChanges

saveButtonDisabled == ~hasChanges \/ isLoading

cancelButtonDisabled == ~hasChanges \/ isLoading

\* a save that raises isLoading before it looks at the pending changes
HandleSaveNoChangesLoading ==
    /\ ~hasChanges \/ Len(pendingChanges) = 0
    /\ isLoading' = TRUE
    /\ toasts' = << Toast("Info", [kind |-> "text", s |-> "No changes to save."], "info") >>
    /\ lastOp' = Op("handleSave:noChanges", << >>)
    /\ UNCHANGED << configData, originalLicenseData, gridData, pendingChanges, draftValues,
                    hasChanges, savePc, changes, configPending, recordsPending,
                    recordsLoaded, atSave, nEdits, nEmits >>
    /\ UNCHANGED << editedCells, refreshError, fnCall, fnResult >>

\* lines 311-314
HandleSaveNoChanges ==
    /\ ~hasChanges \/ Len(pendingChanges) = 0
    /\ toasts' = << Toast("Info", [kind |-> "text", s |-> "No changes to save."], "info") >>
    /\ lastOp' = Op("handleSave:noChanges", << >>)
    /\ UNCHANGED << configData, originalLicenseData, gridData, pendingChanges, draftValues,
                    hasChanges, isLoading, savePc, changes, configPending, recordsPending,
                    recordsLoaded, atSave, nEdits, nEmits >>
    /\ UNCHANGED << editedCells, refreshError, fnCall, fnResult >>

\* lines 316-324
HandleSaveInvalid ==
    /\ ~saveButtonDisabled
    /\ ~(~hasChanges \/ Len(pendingChanges) = 0)
    /\ LET validation == validateTotals(configData, SelectSeq(gridData, IsDataRow))
       IN  /\ ~validation.isValid
           /\ toasts' = << Toast("Error", ValidationMessage("cannotSave", validation.errors),
                                 "error") >>
    /\ lastOp' = Op("handleSave:invalid", << >>)
    /\ UNCHANGED << configData, originalLicenseData, gridData, pendingChanges, draftValues,
                    hasChanges, isLoading, savePc, changes, configPending, recordsPending,
                    recordsLoaded, atSave, nEdits, nEmits >>
    /\ UNCHANGED << editedCells, refreshError, fnCall, fnResult >>

\* a save that issues the persist call without raising isLoading
HandleSavePersistNotLoading ==
    /\ ~saveButtonDisabled
    /\ ~(~hasChanges \/ Len(pendingChanges) = 0)
    /\ validateTotals(configData, SelectSeq(gridData, IsDataRow)).isValid
    /\ changes' = MapValues(pendingChanges)
    /\ savePc' = "persisting"
    /\ toasts' = << >>
    /\ lastOp' = Op("handleSave:persist", << >>)
    /\ atSave' = [pendingChanges |-> pendingChanges, draftValues |-> draftValues,
                  nEdits |-> nEdits]
    /\ UNCHANGED << configData, originalLicenseData, gridData, pendingChanges, draftValues,
                    hasChanges, isLoading, configPending, recordsPending, recordsLoaded,
                    nEdits, nEmits >>
    /\ UNCHANGED << editedCells, refreshError, fnCall, fnResult >>

\* lines 326-335: up to the await of saveLicenseData
HandleSavePersist ==
    /\ ~saveButtonDisabled
    /\ ~(~hasChanges \/ Len(pendingChanges) = 0)
    /\ validateTotals(configData, SelectSeq(gridData, IsDataRow)).isValid
    /\ isLoading' = TRUE
    /\ changes' = MapValues(pendingChanges)
    /\ savePc' = "persisting"
    /\ toasts' = << >>
    /\ lastOp' = Op("handleSave:persist", << >>)
    /\ atSave' = [pendingChanges |-> pendingChanges, draftValues |-> draftValues,
                  nEdits |-> nEdits]
    /\ UNCHANGED << configData, originalLicenseData, gridData, pendingChanges, draftValues,
                    hasChanges, configPending, recordsPending, recordsLoaded, nEdits, nEmits >>
    /\ UNCHANGED << editedCells, refreshError, fnCall, fnResult >>

\* a success path that leaves the edit buffer as it is
SaveLicenseDataResolvedKeepsDrafts ==
    /\ savePc = "persisting"
    /\ toasts' = << Toast("Success",
                          [kind |-> "text", s |-> "License quantities saved successfully"],
                          "success") >>
    /\ hasChanges' = FALSE
    /\ pendingChanges' = << >>
    /\ recordsPending' = "save"
    /\ savePc' = "refreshing"
    /\ lastOp' = Op("handleSave:saved", << >>)
    /\ UNCHANGED << configData, originalLicenseData, gridData, draftValues, isLoading,
                    changes, configPending, recordsLoaded, atSave, nEdits, nEmits >>
    /\ editedCells' = << >>
    /\ UNCHANGED << refreshError, fnCall, fnResult >>

\* lines 337-349: saveLicenseData resolved; refreshApex asks for the records again
SaveLicenseDataResolved ==
    /\ savePc = "persisting"
    /\ toasts' = << Toast("Success",
                          [kind |-> "text", s |-> "License quantities saved successfully"],
                          "success") >>
    /\ hasChanges' = FALSE
    /\ pendingChanges' = << >>
    /\ draftValues' = << >>
    /\ recordsPending' = "save"
    /\ savePc' = "refreshing"
    /\ lastOp' = Op("handleSave:saved", << >>)
    /\ UNCHANGED << configData, originalLicenseData, gridData, isLoading, changes,
                    configPending, recordsLoaded, atSave, nEdits, nEmits >>
    /\ editedCells' = << >>
    /\ UNCHANGED << refreshError, fnCall, fnResult >>

\* a message that prefers error.message to the structured detail
SaveErrorMessageFirst(error) ==
    IF error.present /\ error.message # "" THEN error.message
    ELSE IF error.present /\ error.bodyMessage # "" THEN error.bodyMessage
    ELSE "An unknown error occurred."

\* lines 352-357: the message of the error notice
SaveErrorMessage(error) ==
    IF error.present /\ error.bodyMessage # "" THEN error.bodyMessage
    ELSE IF error.present /\ error.message # "" THEN error.message
    ELSE "An unknown error occurred."

\* a failure path without the finally block: isLoading stays as it is
SaveLicenseDataRejectedNoFinally ==
    /\ savePc = "persisting"
    /\ \E error \in SaveErrors :
        /\ toasts' = << Toast("Error",
                              [kind |-> "saveFailed", detail |-> SaveErrorMessage(error)],
                              "error") >>
        /\ lastOp' = Op("handleSave:failed", error)
    /\ savePc' = "idle"
    /\ changes' = << >>
    /\ atSave' = NoSave
    /\ UNCHANGED << configData, originalLicenseData, gridData, pendingChanges, draftValues,
                    hasChanges, isLoading, configPending, recordsPending, recordsLoaded,
                    nEdits, nEmits >>
    /\ UNCHANGED << editedCells, refreshError, fnCall, fnResult >>

\* lines 351-362: saveLicenseData rejected; catch, then finally
SaveLicenseDataRejected ==
    /\ savePc = "persisting"
    /\ \E error \in SaveErrors :
        /\ toasts' = << Toast("Error",
                              [kind |-> "saveFailed", detail |-> SaveErrorMessage(error)],
                              "error") >>
        /\ lastOp' = Op("handleSave:failed", error)
    /\ isLoading' = FALSE
    /\ savePc' = "idle"
    /\ changes' = << >>
    /\ atSave' = NoSave
    /\ UNCHANGED << configData, originalLicenseData, gridData, pendingChanges, draftValues,
                    hasChanges, configPending, recordsPending, recordsLoaded, nEdits, nEmits >>
    /\ UNCHANGED << editedCells, refreshError, fnCall, fnResult >>

\* lines 349, 360-362: the promise of refreshApex resolved; finally
HandleSaveFinally ==
    /\ savePc = "refreshing"
    /\ recordsPending = "none"
    /\ isLoading' = FALSE
    /\ savePc' = "idle"
    /\ changes' = << >>
    /\ atSave' = NoSave
    /\ toasts' = << >>
    /\ lastOp' = Op("handleSave:finally", << >>)
    /\ refreshError' = Undefined
    /\ UNCHANGED << configData, originalLicenseData, gridData, pendingChanges, draftValues,
                    hasChanges, configPending, recordsPending, recordsLoaded, nEdits, nEmits >>
    /\ UNCHANGED << editedCells, fnCall, fnResult >>

\* the error object of a failed fetch as the catch block reads it
AsSaveError(error) ==
    [present |-> TRUE, bodyMessage |-> IF error.hasBody THEN error.message ELSE "",
     message |-> ""]

\* lines 349, 351-362: the refresh failed and the promise of refreshApex, awaited
\* inside the try block, rejected with its error; catch, then finally.  Whether
\* the promise of a failed refresh rejects or resolves is the platform's choice:
\* HandleSaveFinally is the other outcome.
RefreshApexRejected ==
    /\ savePc = "refreshing"
    /\ recordsPending = "none"
    /\ refreshError # Undefined
    /\ toasts' = << Toast("Error",
                          [kind |-> "saveFailed",
                           detail |-> SaveErrorMessage(AsSaveError(refreshError))],
                          "error") >>
    /\ lastOp' = Op("handleSave:refreshFailed", refreshError)
    /\ isLoading' = FALSE
    /\ savePc' = "idle"
    /\ changes' = << >>
    /\ atSave' = NoSave
    /\ refreshError' = Undefined
    /\ UNCHANGED << configData, originalLicenseData, gridData, pendingChanges, draftValues,
                    hasChanges, configPending, recordsPending, recordsLoaded, nEdits, nEmits >>
    /\ UNCHANGED << editedCells, fnCall, fnResult >>

(***************************************************************************)
(* handleCancel()                                                          *)
(***************************************************************************)
HandleCancel ==
    /\ ~cancelButtonDisabled
    /\ hasChanges' = FALSE
    /\ pendingChanges' = << >>
    /\ draftValues' = << >>
    /\ recordsPending' = "cancel"
    /\ toasts' = << Toast("Info", [kind |-> "text", s |-> "Changes discarded."], "info") >>
    /\ lastOp' = Op("handleCancel", << >>)
    /\ UNCHANGED << configData, originalLicenseData, gridData, isLoading, savePc, changes,
                    configPending, recordsLoaded, atSave, nEdits, nEmits >>
    /\ editedCells' = << >>
    /\ UNCHANGED << refreshError, fnCall, fnResult >>

Next ==
    \/ WiredConfigData
    \/ WiredConfigError
    \/ WiredGetLicenseDataData
    \/ WiredGetLicenseDataError
    \/ HandleDraftValueChange
    \/ HandleSaveNoChanges
    \/ HandleSaveInvalid
    \/ HandleSavePersist
    \/ SaveLicenseDataResolved
    \/ SaveLicenseDataRejected
    \/ HandleSaveFinally
    \/ RefreshApexRejected
    \/ HandleCancel

Spec == Init /\ [][Next]_vars

\* The component when every external call completes: a persist call in flight
\* resolves or rejects, an outstanding records fetch delivers data or an
\* error, and the continuation of handleSave after the refresh runs.  The two
\* outcomes of a call are enabled in the same states and each disables the
\* other, so weak fairness of one outcome is weak fairness of the completion.
FairSpec ==
    /\ Init /\ [][Next]_vars
    /\ WF_vars(SaveLicenseDataRejected)
    /\ WF_vars(WiredGetLicenseDataError)
    /\ WF_vars(HandleSaveFinally)

(***************************************************************************)
(* The component fed the configuration and the records of the scenario of  *)
(* spec.md section 8: contract length 3, ceiling 100, records (K, 1, 40)   *)
(* and (1, 1, 50).                                                         *)
(***************************************************************************)
ScenarioConfigs == { Config(3, 100) }

ScenarioRecordLists == { << Record("K", 1, Num(40)), Record("1", 1, Num(50)) >> }

ScenarioBatches ==
    { << Draft("row-0", << Cell(1, Str("70")) >>) >>,
      << Draft("row-0", << Cell(1, Str("10")) >>) >>,
      << Draft("row-1", << Cell(2, Str("70")) >>) >> }

ScenarioNext ==
    \/ WiredConfigDataOf(ScenarioConfigs)
    \/ WiredConfigError
    \/ WiredGetLicenseDataDataOf(ScenarioRecordLists)
    \/ WiredGetLicenseDataError
    \/ HandleDraftValueChangeOf(ScenarioBatches)
    \/ HandleSaveNoChanges
    \/ HandleSaveInvalid
    \/ HandleSavePersist
    \/ SaveLicenseDataResolved
    \/ SaveLicenseDataRejected
    \/ HandleSaveFinally
    \/ RefreshApexRejected
    \/ HandleCancel

Scenario == Init /\ [][ScenarioNext]_vars

(***************************************************************************)
(* The methods of the component called on their own, on a component just   *)
(* constructed: one call per behaviour, its arguments drawn from the sets  *)
(* below.                                                                  *)
(***************************************************************************)
widget == << configData, originalLicenseData, gridData, pendingChanges, draftValues,
             hasChanges, isLoading, savePc, changes, configPending, recordsPending, toasts,
             lastOp, recordsLoaded, atSave, nEdits, nEmits, editedCells, refreshError >>

\* contract lengths (0: unset), ceilings (0: unset), dates
FnLengths == { 0, 1, 3 }

FnCeilings == { 0, 1, 2 }

FnDates == { "", "valid", "invalid" }

FnConfigs ==
    { [F5_Contract_Length__c |-> len, F5_Maximum_License__c |-> max,
       F5_LMS_Start_Date__c |-> start, F5_Initial_Renewal_date__c |-> renewal] :
        len \in FnLengths, max \in FnCeilings, start \in FnDates, renewal \in FnDates }

FnRecords ==
    { Record(grade, year, quantity) :
        grade \in { "K", "8" }, year \in { 1, 2 }, quantity \in { Null, Num(0), Num(2) } }

\* the records lists: every list of at most two records, and three of three
\* records with distinct keys
FnRecordLists ==
    { << >> } \cup { << a >> : a \in FnRecords }
    \cup { << a, b >> : a \in FnRecords, b \in FnRecords }
    \cup { << Record("K", 1, q), Record("8", 2, Num(0)), Record("8", 1, Num(2)) >> :
              q \in { Null, Num(0), Num(2) } }

\* the category rows the builder makes of a records list
FnDataRows(config, data) ==
    SelectSeq(processLicenseData(IF config = Undefined THEN Config(0, 0) ELSE config, data),
              IsDataRow)

CallValidateTotals ==
    /\ fnCall = NoCall
    /\ \E config \in FnConfigs \cup { Undefined }, data \in FnRecordLists :
        /\ fnCall' = [fn |-> "validateTotals", config |-> config,
                      dataRows |-> FnDataRows(config, data)]
        /\ fnResult' = validateTotals(config, FnDataRows(config, data))
    /\ UNCHANGED widget

\* processLicenseData(data) with this.configData = config: what gridData is after it
CallProcessLicenseData ==
    /\ fnCall = NoCall
    /\ \E config \in FnConfigs \cup { Undefined }, data \in FnRecordLists :
        /\ fnCall' = [fn |-> "processLicenseData", config |-> config, data |-> data]
        /\ fnResult' = IF config = Undefined THEN gridData
                       ELSE processLicenseData(config, data)
    /\ UNCHANGED widget

\* get columns() with this.configData = config
CallColumns ==
    /\ fnCall = NoCall
    /\ \E config \in FnConfigs \cup { Undefined } :
        /\ fnCall' = [fn |-> "columns", config |-> config]
        /\ fnResult' = columns(config)
    /\ UNCHANGED widget

\* the raw values a cell of a draft can carry
FnRawValues ==
    { Null, Undefined, Str(""), Str("2"), Str("10"), Str("1x"), Str("abc"), Str("-1"),
      Num(-1), Num(0), Num(2) }

\* the two coercions of handleDraftValueChange applied to one raw value
CallCoerce ==
    /\ fnCall = NoCall
    /\ \E value \in FnRawValues :
        /\ fnCall' = [fn |-> "coerce", value |-> value]
        /\ fnResult' = [grid |-> GridValue(value), pending |-> PendingQuantity(value)]
    /\ UNCHANGED widget

FunctionsNext ==
    \/ CallValidateTotals
    \/ CallProcessLicenseData
    \/ CallColumns
    \/ CallCoerce

Functions == Init /\ [][FunctionsNext]_vars

(***************************************************************************)
(* Vocabulary of the properties, stated without the component's helpers.   *)
(***************************************************************************)
\* N: the number of year columns of a configuration
YearCount(config) == IF config = Undefined THEN 0 ELSE Len(columns(config)) - 1

CategoryRows(rows) == { i \in 1..Len(rows) : rows[i].id # TotalsRowId }

TotalsRowOf(rows) == rows[CHOOSE i \in 1..Len(rows) : rows[i].id = TotalsRowId]

\* a quantity in a sum: null (and an absent field) counts 0
Counted(value) == IF value.t = "number" THEN value.v ELSE 0

RECURSIVE SumCells(_, _, _)
SumCells(rows, idx, y) ==
    IF idx = { } THEN 0
    ELSE LET i == CHOOSE j \in idx : TRUE
         IN  Counted(Field(rows[i], y)) + SumCells(rows, idx \ { i }, y)

\* the sum of a year column over the category rows
YearSum(rows, y) == SumCells(rows, CategoryRows(rows), y)

\* the years whose sum exceeds the configured ceiling
Offending(rows, config) ==
    IF config = Undefined \/ config.F5_Maximum_License__c = 0 THEN { }
    ELSE { y \in 1..YearCount(config) : YearSum(rows, y) > config.F5_Maximum_License__c }

\* the quantity of the source records for (grade, year): the last record wins
SourceCell(records, grade, y) ==
    LET hits == { i \in 1..Len(records) :
                    records[i].Grade_Level__c = grade /\ records[i].Year__c = y }
    IN  IF hits = { } THEN Null
        ELSE records[CHOOSE i \in hits : \A j \in hits : j <= i].License_Quantity__c

RECURSIVE SumSource(_, _, _)
SumSource(records, k, y) ==
    IF k = 0 THEN 0
    ELSE Counted(SourceCell(records, gradeLabels[k], y)) + SumSource(records, k - 1, y)

\* the Grid Builder output: nine category rows, then the totals row
BuiltGrid(config, records) ==
    [i \in 1..(Len(gradeLabels) + 1) |->
        IF i <= Len(gradeLabels)
        THEN [id |-> rowIds[i], grade |-> gradeLabels[i],
              years |-> [y \in 1..YearCount(config) |->
                            SourceCell(records, gradeLabels[i], y)]]
        ELSE [id |-> TotalsRowId, grade |-> "Total",
              years |-> [y \in 1..YearCount(config) |->
                            Num(SumSource(records, Len(gradeLabels), y))]]]

EntriesFor(m, grade, year) ==
    { i \in 1..Len(m) : m[i].value.grade = grade /\ m[i].value.year = year }

SaveOps == { "handleSave:noChanges", "handleSave:invalid", "handleSave:persist" }

EditOps == { "handleDraftValueChange:filtered", "handleDraftValueChange:applied" }

(***************************************************************************)
(* C1..C10                                                                 *)
(***************************************************************************)
\* C1: in every reachable state with a non-empty grid, for every year column y
\* in 1..N the totals row's year-y field equals the sum over the category rows
\* of their year-y field, null counted as 0.
C1_TotalsEqualColumnSums ==
    gridData # << >> =>
        \A y \in 1..YearCount(configData) :
            Field(TotalsRowOf(gridData), y) = Num(YearSum(gridData, y))

\* C2: after handleDraftValueChange applies an edit of one cell to the raw
\* input V, the grid's field for that cell is V when V is a valid non-negative
\* integer and null otherwise, and the pending-change set holds exactly one
\* entry for that (category, year), with that same quantity.
C2_EditRoundTrip ==
    (/\ lastOp.op = "handleDraftValueChange:applied"
     /\ Len(lastOp.arg) = 1
     /\ Len(lastOp.arg[1].fields) = 1) =>
        LET cell == lastOp.arg[1].fields[1]
            row == FindRow(gridData, lastOp.arg[1].id)
            entries == EntriesFor(pendingChanges, row.grade, cell.year)
        IN  /\ Field(row, cell.year) = AsQuantity(cell.value)
            /\ Cardinality(entries) = 1
            /\ \A i \in entries : pendingChanges[i].value.quantity = AsQuantity(cell.value)

\* C3: whenever handleSave is invoked with a non-empty pending-change set while
\* some year column's sum exceeds the ceiling, no persist call is issued, the
\* state stays Dirty (hasChanges true, isLoading false), the pending-change set
\* is unchanged, and one error notice lists every offending column with its
\* label, its sum and the ceiling.
C3_InvalidGridBlocksSave ==
    [][ (/\ lastOp'.op \in SaveOps
         /\ Len(pendingChanges) > 0
         /\ Offending(gridData, configData) # { }) =>
            /\ savePc' = savePc
            /\ changes' = changes
            /\ hasChanges'
            /\ ~isLoading'
            /\ pendingChanges' = pendingChanges
            /\ Len(toasts') = 1
            /\ toasts'[1].variant = "error"
            /\ toasts'[1].message.kind = "cannotSave"
            /\ Len(toasts'[1].message.errors) = Cardinality(Offending(gridData, configData))
            /\ \A y \in Offending(gridData, configData) :
                \E i \in 1..Len(toasts'[1].message.errors) :
                    toasts'[1].message.errors[i] =
                        [label |-> columns(configData)[y + 1].label,
                         total |-> YearSum(gridData, y),
                         max |-> configData.F5_Maximum_License__c] ]_vars

C3_Witness ==
    /\ lastOp.op = "handleSave:invalid"
    /\ Len(pendingChanges) > 0
    /\ Cardinality(Offending(gridData, configData)) = 2

\* C4: when the persist call of a save succeeds, the pending-change set and the
\* edit buffer are empty, hasChanges is false, a re-fetch of the records is
\* requested and exactly one success notice is emitted, by that step and by no
\* other; handleSave leaves the refresh only once the re-fetch is over, and
\* then isLoading is false.
C4_SavingToClean ==
    [][ /\ lastOp'.op = "handleSave:saved" =>
            /\ savePc = "persisting"
            /\ pendingChanges' = << >>
            /\ draftValues' = << >>
            /\ ~hasChanges'
            /\ recordsPending' # "none"
            /\ Len(toasts') = 1
            /\ toasts'[1].variant = "success"
        /\ (\E i \in 1..Len(toasts') : toasts'[i].variant = "success") =>
            /\ lastOp'.op = "handleSave:saved"
            /\ savePc = "persisting" /\ savePc' = "refreshing"
        /\ (savePc = "refreshing" /\ savePc' # "refreshing") =>
            /\ recordsPending = "none"
            /\ savePc' = "idle"
        /\ isLoading' = (savePc' # "idle") ]_vars

C4_Witness ==
    /\ lastOp.op = "handleSave:finally"
    /\ ~isLoading
    /\ ~hasChanges
    /\ pendingChanges = << >>
    /\ draftValues = << >>

\* the notice text of a failed save: the structured detail when present, else
\* the error's message, else the generic text
FailureDetail(error) ==
    CASE error.present /\ error.bodyMessage # "" -> error.bodyMessage
      [] error.present /\ error.bodyMessage = "" /\ error.message # "" -> error.message
      [] OTHER -> "An unknown error occurred."

C6_CancelDiscardsEdits ==
    [][ /\ (lastOp'.op = "handleCancel" /\ Len(pendingChanges) > 0) =>
            /\ pendingChanges' = << >>
            /\ draftValues' = << >>
            /\ ~hasChanges'
            /\ Len(toasts') = 1
            /\ toasts'[1].variant = "info"
            /\ recordsPending' = "cancel"
        /\ (lastOp'.op = "wiredGetLicenseData:data" /\ recordsPending = "cancel") =>
            /\ originalLicenseData' = lastOp'.arg.data
            /\ gridData' = BuiltGrid(configData', lastOp'.arg.data) ]_vars

C6_Witness ==
    /\ lastOp.op = "wiredGetLicenseData:data"
    /\ lastOp.arg.for = "cancel"
    /\ lastOp.arg.data # << >>
    /\ pendingChanges = << >>
    /\ ~hasChanges
    /\ gridData = BuiltGrid(configData, originalLicenseData)

\* C7: the grid is not built while only one of the configuration and the
\* records has arrived; as soon as both have arrived at least once the grid
\* equals the Grid Builder output for that configuration and those records, for
\* every records list including the empty one and for both arrival orders; and
\* every later arrival of either one rebuilds the grid from the latest
\* configuration and records.
C7_FetchRace ==
    /\ (configData = Undefined \/ ~recordsLoaded) => gridData = << >>
    /\ (/\ lastOp.op \in { "wiredConfig:data", "wiredGetLicenseData:data" }
        /\ configData # Undefined
        /\ recordsLoaded) =>
            gridData = BuiltGrid(configData, originalLicenseData)

\* C8: in every reachable state the save control and the cancel control are
\* both disabled exactly when the pending-change set is empty or a save is in
\* flight; hasChanges true implies a non-empty pending-change set, and the
\* widget becomes Dirty only through an edit that leaves an entry in it.
C8_ControlsFollowLifecycle ==
    /\ [](/\ saveButtonDisabled = (Len(pendingChanges) = 0 \/ savePc # "idle")
          /\ cancelButtonDisabled = (Len(pendingChanges) = 0 \/ savePc # "idle")
          /\ hasChanges => Len(pendingChanges) > 0)
    /\ [][ (~hasChanges /\ hasChanges') =>
                /\ lastOp'.op = "handleDraftValueChange:applied"
                /\ Len(pendingChanges') > 0 ]_vars

C8_Witness ==
    /\ hasChanges
    /\ Len(pendingChanges) > 0
    /\ savePc = "idle"
    /\ ~saveButtonDisabled
    /\ ~cancelButtonDisabled

\* C9: whenever handleSave is invoked while hasChanges is false or the
\* pending-change set is empty, no persist call is issued, isLoading, the grid
\* and the pending-change set are unchanged and exactly one informational
\* notice is emitted; the persist call is never issued with an empty change list.
C9_SaveWithNothingPending ==
    [][ /\ (lastOp'.op \in SaveOps /\ (~hasChanges \/ Len(pendingChanges) = 0)) =>
            /\ savePc' = savePc
            /\ changes' = changes
            /\ isLoading' = isLoading
            /\ gridData' = gridData
            /\ pendingChanges' = pendingChanges
            /\ Len(toasts') = 1
            /\ toasts'[1].variant = "info"
        /\ lastOp'.op = "handleSave:persist" =>
            /\ savePc' = "persisting"
            /\ Len(changes') > 0 ]_vars

C9_Witness ==
    /\ lastOp.op = "handleSave:noChanges"
    /\ gridData # << >>
    /\ Len(toasts) = 1

\* C10: an edit batch whose entries all target the totals row leaves the grid,
\* the pending-change set and hasChanges unchanged and emits no notice; in a
\* mixed batch the totals-row entries have no effect; the pending-change set
\* never holds an entry for the totals sentinel; and the totals values change
\* only by recomputation from the category rows.
C10_TotalsRowNotEditable ==
    [][ /\ (/\ lastOp'.op \in EditOps
            /\ \A i \in 1..Len(lastOp'.arg) : lastOp'.arg[i].id = TotalsRowId) =>
                /\ gridData' = gridData
                /\ pendingChanges' = pendingChanges
                /\ hasChanges' = hasChanges
                /\ toasts' = << >>
        /\ lastOp'.op \in EditOps =>
            LET others == SelectSeq(lastOp'.arg, LAMBDA d : d.id # TotalsRowId)
            IN  /\ \A i \in 1..Len(draftValues') : draftValues'[i].id # TotalsRowId
                /\ others # << >> =>
                    /\ gridData' = Append(UpdatedDataRows(gridData, others),
                                          TotalsRowOf(gridData'))
                    /\ pendingChanges' = UpdatedPendingChanges(pendingChanges, gridData', others)
        /\ \A i \in 1..Len(pendingChanges') :
            /\ pendingChanges'[i].value.grade # "Total"
            /\ pendingChanges'[i].key[1] # "Total"
        /\ (gridData' # gridData) =>
            \A y \in DOMAIN TotalsRowOf(gridData').years :
                TotalsRowOf(gridData').years[y] = Num(YearSum(gridData', y)) ]_vars

C10_Witness ==
    /\ lastOp.op = "handleDraftValueChange:applied"
    /\ \E i \in 1..Len(lastOp.arg) : lastOp.arg[i].id = TotalsRowId
    /\ hasChanges

(***************************************************************************)
(* C11..C20                                                                *)
(***************************************************************************)
\* the category of a row identifier
\* C11: the pending-change set holds at most one entry per (category, year),
\* filed under that key; after an edit batch the entry of every edited cell
\* carries the coerced value of the batch's last edit of that cell and the
\* entries of the other cells are as before; an entry leaves the set only when
\* a save succeeds or cancel runs, and both of these empty the set.
C11_PendingMapSemantics ==
    /\ [](\A i, j \in 1..Len(pendingChanges) :
            /\ pendingChanges[i].key = << pendingChanges[i].value.grade,
                                          pendingChanges[i].value.year >>
            /\ pendingChanges[i].key = pendingChanges[j].key => i = j)
    /\ [][ /\ lastOp'.op \in EditOps =>
                LET edits == CellEdits(lastOp'.arg)
                    edited == { << edits[k].grade, edits[k].year >> : k \in 1..Len(edits) }
                IN  /\ \A k \in 1..Len(edits) :
                          (\A l \in (k + 1)..Len(edits) :
                              << edits[l].grade, edits[l].year >>
                                  # << edits[k].grade, edits[k].year >>) =>
                             \E i \in 1..Len(pendingChanges') :
                                 pendingChanges'[i].value =
                                     [grade |-> edits[k].grade, year |-> edits[k].year,
                                      quantity |-> AsQuantity(edits[k].value)]
                    /\ \A i \in 1..Len(pendingChanges) :
                          pendingChanges[i].key \notin edited =>
                             \E j \in 1..Len(pendingChanges') :
                                 pendingChanges'[j] = pendingChanges[i]
                    /\ \A j \in 1..Len(pendingChanges') :
                          pendingChanges'[j].key \notin edited =>
                             \E i \in 1..Len(pendingChanges) :
                                 pendingChanges[i] = pendingChanges'[j]
           /\ lastOp'.op \in { "handleSave:saved", "handleCancel" } =>
                pendingChanges' = << >>
           /\ (\E i \in 1..Len(pendingChanges) :
                    \A j \in 1..Len(pendingChanges') :
                        pendingChanges'[j].key # pendingChanges[i].key) =>
                lastOp'.op \in { "handleSave:saved", "handleCancel" } ]_vars

\* K/year 1 edited for the second time, the entry of K/year 2 still there
C11_Witness ==
    /\ lastOp.op = "handleDraftValueChange:applied"
    /\ lastOp.arg = << Draft("row-0", << Cell(1, Str("2")) >>) >>
    /\ Len(pendingChanges) = 2
    /\ pendingChanges[1].value = [grade |-> "K", year |-> 1, quantity |-> Num(2)]
    /\ pendingChanges[2].value = [grade |-> "K", year |-> 2, quantity |-> Num(2)]

\* the members of a set of years in increasing order
RECURSIVE Ascending(_)
Ascending(years) ==
    IF years = { } THEN << >>
    ELSE LET least == CHOOSE y \in years : \A z \in years : y <= z
         IN  << least >> \o Ascending(years \ { least })

OneDraftPerRow(batch) ==
    \A i, j \in 1..Len(batch) : batch[i].id = batch[j].id => i = j

\* the grid cell shows the edit: the input read as a quantity (a negative
\* number is shown as 0, the case of C2)
ShowsEdit(cell, raw) ==
    \/ cell = AsQuantity(raw)
    \/ raw.t = "number" /\ raw.v < 0 /\ cell = Num(0)

\* C13: an accepted edit batch is applied whether or not it makes a year's total
\* exceed the ceiling: the state is Dirty, every edited cell of the grid holds
\* its coerced value, the totals row holds the column sums and every edited cell
\* has a pending entry; one warning notice listing the offending years is
\* emitted when some year's total exceeds the ceiling after the batch, and no
\* notice when none does.
C13_ValidationIsAdvisory ==
    [][ lastOp'.op = "handleDraftValueChange:applied" =>
            LET edits == CellEdits(lastOp'.arg)
                offending == Offending(gridData', configData')
            IN  /\ hasChanges'
                /\ OneDraftPerRow(lastOp'.arg) =>
                      \A k \in 1..Len(edits) :
                          \E i \in CategoryRows(gridData') :
                              /\ gridData'[i].grade = edits[k].grade
                              /\ ShowsEdit(Field(gridData'[i], edits[k].year), edits[k].value)
                /\ \A y \in DOMAIN TotalsRowOf(gridData').years :
                      TotalsRowOf(gridData').years[y] = Num(YearSum(gridData', y))
                /\ \A k \in 1..Len(edits) :
                      EntriesFor(pendingChanges', edits[k].grade, edits[k].year) # { }
                /\ offending # { } =>
                      /\ Len(toasts') = 1
                      /\ toasts'[1].variant = "warning"
                      /\ toasts'[1].message.kind = "warning"
                      /\ Len(toasts'[1].message.errors) = Cardinality(offending)
                /\ offending = { } => toasts' = << >> ]_vars

C13_Witness ==
    /\ lastOp.op = "handleDraftValueChange:applied"
    /\ Offending(gridData, configData) # { }
    /\ hasChanges
    /\ Len(pendingChanges) > 0
    /\ Len(toasts) = 1
    /\ toasts[1].variant = "warning"

\* the one message of the scenario: year 1, total 120, ceiling 100
ScenarioErrors == << [label |-> YearLiteral(1), total |-> 120, max |-> 100] >>

\* the cell of a category in the grid
CellOf(rows, grade, y) ==
    Field(rows[CHOOSE i \in CategoryRows(rows) : rows[i].grade = grade], y)

\* C14: in the scenario the built grid has year-1 total 90 and no year above
\* the ceiling; editing K/year 1 of that grid to "70" makes the year-1 total
\* 120 and emits one warning for year 1; a save of the grid with that total
\* issues no persist call and emits one error notice with the year-1 column
\* label, 120 and 100.  (The save that follows the edit: the edit is pending.)
C14_ScenarioTrace ==
    /\ []((gridData # << >> /\ nEdits = 0) =>
            /\ TotalsRowOf(gridData).years[1] = Num(90)
            /\ Offending(gridData, configData) = { })
    /\ [][ /\ (/\ lastOp'.op \in EditOps
                /\ lastOp'.arg = << Draft("row-0", << Cell(1, Str("70")) >>) >>
                /\ CellOf(gridData, "1", 1) = Num(50)) =>
                    /\ CellOf(gridData', "K", 1) = Num(70)
                    /\ TotalsRowOf(gridData').years[1] = Num(120)
                    /\ toasts' = << Toast("Warning",
                                          ValidationMessage("warning", ScenarioErrors),
                                          "warning") >>
           /\ (/\ lastOp'.op \in SaveOps
               /\ Len(pendingChanges) > 0
               /\ TotalsRowOf(gridData).years[1] = Num(120)) =>
                    /\ savePc' = "idle"
                    /\ changes' = << >>
                    /\ ~isLoading'
                    /\ toasts' = << Toast("Error",
                                          ValidationMessage("cannotSave", ScenarioErrors),
                                          "error") >> ]_vars

C14_Witness ==
    /\ lastOp.op = "handleSave:invalid"
    /\ TotalsRowOf(gridData).years[1] = Num(120)
    /\ savePc = "idle"
    /\ toasts = << Toast("Error", ValidationMessage("cannotSave", ScenarioErrors), "error") >>

\* C15: editing a cell that holds the quantity q to the empty string sets the
\* grid cell to null, leaves exactly one pending entry for that (category,
\* year), with quantity null, and makes the totals row's value for that year
\* the previous total minus q.
C15_ClearingACell ==
    [][ (/\ lastOp'.op = "handleDraftValueChange:applied"
         /\ Len(lastOp'.arg) = 1
         /\ Len(lastOp'.arg[1].fields) = 1
         /\ lastOp'.arg[1].fields[1].value = Str("")
         /\ CellOf(gridData, GradeOf(lastOp'.arg[1].id),
                   lastOp'.arg[1].fields[1].year).t = "number") =>
            LET grade == GradeOf(lastOp'.arg[1].id)
                y == lastOp'.arg[1].fields[1].year
                q == CellOf(gridData, grade, y).v
                entries == EntriesFor(pendingChanges', grade, y)
            IN  /\ CellOf(gridData', grade, y) = Null
                /\ Cardinality(entries) = 1
                /\ \A i \in entries : pendingChanges'[i].value.quantity = Null
                /\ Field(TotalsRowOf(gridData'), y)
                      = Num(Field(TotalsRowOf(gridData), y).v - q) ]_vars

\* K/year 1, which held 1 of the year's 2, has been cleared
C15_Witness ==
    /\ lastOp.op = "handleDraftValueChange:applied"
    /\ lastOp.arg = << Draft("row-0", << Cell(1, Str("")) >>) >>
    /\ nEdits = 1
    /\ originalLicenseData # << >>
    /\ CellOf(gridData, "K", 1) = Null
    /\ TotalsRowOf(gridData).years[1] = Num(1)
    /\ pendingChanges = << [key |-> Key("K", 1),
                            value |-> [grade |-> "K", year |-> 1, quantity |-> Null]] >>

\* the categories and the row identifiers, as spec.md lists them
Categories == << "K", "1", "2", "3", "4", "5", "6", "7", "8" >>

RowIdentifiers ==
    << "row-0", "row-1", "row-2", "row-3", "row-4", "row-5", "row-6", "row-7", "row-8" >>

\* the contract length of a configuration: the configured one, the default
\* when it is unset
ContractLength(config) ==
    IF config.F5_Contract_Length__c = 0 THEN DefaultContractLength
    ELSE config.F5_Contract_Length__c

\* C16: for every configuration with contract length N and every records list
\* processLicenseData yields ten rows: the nine category rows in the order
\* K, 1, .., 8 with identifiers row-0..row-8, then the one totals row with the
\* sentinel identifier; each category row has the year fields 1..N, each the
\* quantity of the record for (category, year) when there is one (0 stays 0)
\* and null when there is none.
C16_GridBuilderOutput ==
    (fnCall.fn = "processLicenseData" /\ fnCall.config # Undefined) =>
        LET rows == fnResult
            N == ContractLength(fnCall.config)
        IN  /\ Len(rows) = 10
            /\ \A i \in 1..9 :
                /\ rows[i].id = RowIdentifiers[i]
                /\ rows[i].grade = Categories[i]
                /\ DOMAIN rows[i].years = 1..N
                /\ \A y \in 1..N :
                    rows[i].years[y] = SourceCell(fnCall.data, Categories[i], y)
            /\ rows[10].id = "totals-row"
            /\ DOMAIN rows[10].years = 1..N

\* a build with a record of quantity 0, one of quantity 2 and an absent cell
C16_Witness ==
    /\ fnCall.fn = "processLicenseData"
    /\ fnCall.config # Undefined
    /\ fnCall.config.F5_Contract_Length__c = 3
    /\ Len(fnCall.data) = 3
    /\ fnResult[1].years[1] = Num(0)
    /\ fnResult[9].years[1] = Num(2)
    /\ fnResult[9].years[3] = Null

\* C17: the column list is empty when the configuration is absent; otherwise
\* it has N + 1 columns, N the configured contract length or the default when
\* the length is unset; the first is the non-editable category column and
\* column i, for i in 1..N, is editable with the field key year-i.
C17_SchemaDeriver ==
    fnCall.fn = "columns" =>
        IF fnCall.config = Undefined THEN fnResult = << >>
        ELSE LET N == ContractLength(fnCall.config)
             IN  /\ Len(fnResult) = N + 1
                 /\ fnResult[1].label = Str("Grade")
                 /\ fnResult[1].fieldName = 0
                 /\ ~fnResult[1].editable
                 /\ \A i \in 1..N :
                     /\ fnResult[i + 1].fieldName = i
                     /\ fnResult[i + 1].editable

\* the columns of a configuration without a contract length
C17_Witness ==
    /\ fnCall.fn = "columns"
    /\ fnCall.config # Undefined
    /\ fnCall.config.F5_Contract_Length__c = 0
    /\ Len(fnResult) = DefaultContractLength + 1

\* the anchor date of year column i: the start date for the first column,
\* the renewal date for the others
AnchorDate(config, i) ==
    IF i = 1 THEN config.F5_LMS_Start_Date__c ELSE config.F5_Initial_Renewal_date__c

\* C18: for every year column i whose anchor date is absent or not a valid
\* date the label is the literal "Year i" with the column's own index; no
\* year column has a null label; and the label validation messages use for
\* year i is the label of column i.
C18_LabelsFallBackToLiteral ==
    (fnCall.fn = "columns" /\ fnCall.config # Undefined) =>
        \A i \in 1..ContractLength(fnCall.config) :
            /\ AnchorDate(fnCall.config, i) \in { "", "invalid" }
                    => fnResult[i + 1].label = YearLiteral(i)
            /\ fnResult[i + 1].label # Null
            /\ getYearLabel(fnCall.config, i) = fnResult[i + 1].label

\* no two records of the list are for the same (category, year)
DistinctKeys(data) ==
    \A i, j \in 1..Len(data) :
        (/\ data[i].Grade_Level__c = data[j].Grade_Level__c
         /\ data[i].Year__c = data[j].Year__c) => i = j

\* the records of the list in every order
Reorderings(data) ==
    { [i \in 1..Len(data) |-> data[p[i]]] : p \in Permutations(1..Len(data)) }

IsQuantity(v) == v = Null \/ (v.t = "number" /\ v.v \in Nat)

\* C20: for every raw cell input, the coercion for the pending-change
\* quantity and the coercion for the grid cell each give a result that is
\* null or a non-negative integer and that the same coercion leaves as it is.
C20_IdempotentCoercion ==
    fnCall.fn = "coerce" =>
        /\ IsQuantity(fnResult.grid)
        /\ IsQuantity(fnResult.pending)
        /\ GridValue(fnResult.grid) = fnResult.grid
        /\ PendingQuantity(fnResult.pending) = fnResult.pending

\* a negative number coerced: 0 for the grid, null for the pending change
C20_Witness ==
    /\ fnCall.fn = "coerce"
    /\ fnCall.value = Num(-1)
    /\ fnResult.grid = Num(0)
    /\ fnResult.pending = Null

\* the handlers' branches that report or meet a failure
FailureOps ==
    { "wiredConfig:error", "wiredGetLicenseData:error", "wiredGetLicenseData:threw",
      "handleSave:invalid", "handleSave:failed", "handleSave:refreshFailed" }

\* the widget takes input: it is not loading, an edit batch is accepted when
\* rows are displayed, and with pending changes save and cancel are enabled
Interactive ==
    /\ ~isLoading
    /\ (gridData # << >> /\ nEdits + nEmits < MaxInputs) =>
            \E batch \in DraftBatches : IsDisplayed(batch, gridData, configData)
    /\ Len(pendingChanges) > 0 => (~saveButtonDisabled /\ ~cancelButtonDisabled)

\* C21: when every external call completes, every invocation of handleSave
\* is followed by a state with isLoading false; every failure (a fetch error,
\* a validation error, a failed persist call, a failed refresh) is followed
\* by an interactive state, and is in one at once unless a save is in flight.
C21_NoFailureIsFatal ==
    /\ (lastOp.op \in SaveOps) ~> ~isLoading
    /\ (lastOp.op \in FailureOps) ~> Interactive
    /\ []((lastOp.op \in FailureOps /\ savePc = "idle") => Interactive)

\* a persist call has failed with changes pending: the controls are enabled
C21_Witness ==
    /\ lastOp.op = "handleSave:failed"
    /\ Interactive
    /\ Len(pendingChanges) > 0
    /\ ~saveButtonDisabled
    /\ ~cancelButtonDisabled

\* C22: with handleSave and handleCancel invoked only while their control is
\* enabled, a persist call is issued only when no save is in progress, and
\* isLoading is true from that step on; while the persist call or the refresh
\* that follows it is outstanding isLoading stays true and the save and cancel
\* controls stay disabled, so no cancel runs and no second persist call is
\* issued before the first save has completed.
C22_OnePersistInFlight ==
    /\ [](savePc # "idle" => (isLoading /\ saveButtonDisabled /\ cancelButtonDisabled))
    /\ [][ /\ (lastOp'.op = "handleSave:persist" /\ lastOp' # lastOp) =>
               /\ savePc = "idle"
               /\ ~isLoading
               /\ isLoading'
               /\ savePc' = "persisting"
           /\ (lastOp'.op = "handleCancel" /\ lastOp' # lastOp) => savePc = "idle"
           /\ (savePc # "idle" /\ savePc' # "idle") => changes' = changes ]_vars

\* an edit batch accepted during the flight: changes exist, the controls are
\* disabled
C22_Witness ==
    /\ savePc = "persisting"
    /\ lastOp.op = "handleDraftValueChange:applied"
    /\ hasChanges
    /\ isLoading
    /\ saveButtonDisabled
    /\ cancelButtonDisabled

ChangesFor(list, key) ==
    { i \in 1..Len(list) : << list[i].grade, list[i].year >> = key }

\* C24: the change list handed to the persist call is the pending-change set
\* as it is when save is invoked: for every cell edited since the last
\* successful save or cancel exactly one entry, with the quantity last
\* entered for that cell; no entry for any other cell; no entry for the
\* totals row.
C24_ChangeListIsPendingSet ==
    [][ lastOp'.op = "handleSave:persist" =>
            /\ changes' = [i \in 1..Len(pendingChanges) |-> pendingChanges[i].value]
            /\ \A key \in DOMAIN editedCells :
                /\ Cardinality(ChangesFor(changes', key)) = 1
                /\ \A i \in ChangesFor(changes', key) :
                       changes'[i].quantity = editedCells[key]
            /\ \A i \in 1..Len(changes') :
                /\ << changes'[i].grade, changes'[i].year >> \in DOMAIN editedCells
                /\ changes'[i].grade # "Total"
                /\ \E g \in 1..Len(gradeLabels) : gradeLabels[g] = changes'[i].grade ]_vars

\* a save of two cells, one of them edited twice
C24_Witness ==
    /\ lastOp.op = "handleSave:persist"
    /\ nEdits = 2
    /\ changes = << [grade |-> "K", year |-> 1, quantity |-> Num(2)],
                    [grade |-> "K", year |-> 2, quantity |-> Num(2)] >>

\* an entry of the pending-change set is in a change list, with its quantity
SentIn(list, entry) == \E k \in 1..Len(list) : list[k] = entry.value

\* C25: when a persist call succeeds, every entry that leaves the
\* pending-change set was in the change list sent to that call, with the same
\* quantity; an entry created or changed while the call was in flight stays
\* in the set, and with such an entry hasChanges stays true.
C25_NoEditLostBySave ==
    [][ lastOp'.op = "handleSave:saved" =>
            \A i \in 1..Len(pendingChanges) :
                IF SentIn(changes, pendingChanges[i])
                THEN TRUE
                ELSE /\ \E j \in 1..Len(pendingChanges') :
                            pendingChanges'[j] = pendingChanges[i]
                     /\ hasChanges' ]_vars

\* C26: in every reachable state, for every entry (category, year, quantity)
\* of the pending-change set the grid's cell for that category and year holds
\* that quantity.
C26_GridAgreesWithPending ==
    \A i \in 1..Len(pendingChanges) :
        CellOf(gridData, pendingChanges[i].value.grade, pendingChanges[i].value.year)
            = pendingChanges[i].value.quantity

\* the quantity of a cell once a change list is applied to the source records
AppliedCell(list, records, grade, y) ==
    IF ChangesFor(list, << grade, y >>) = { } THEN SourceCell(records, grade, y)
    ELSE list[CHOOSE i \in ChangesFor(list, << grade, y >>) : TRUE].quantity

\* the sum of year y over the first k categories after the change list
RECURSIVE AppliedSum(_, _, _, _)
AppliedSum(list, records, k, y) ==
    IF k = 0 THEN 0
    ELSE Counted(AppliedCell(list, records, gradeLabels[k], y))
         + AppliedSum(list, records, k - 1, y)

\* C27: whenever a persist call is issued with a change list, the grid built
\* from the most recently fetched records with that list applied has no year
\* column whose total exceeds the configured ceiling.
C27_CeilingOnWhatIsPersisted ==
    [][ (lastOp'.op = "handleSave:persist" /\ configData.F5_Maximum_License__c # 0) =>
            \A y \in 1..YearCount(configData) :
                AppliedSum(changes', originalLicenseData, Len(gradeLabels), y)
                    <= configData.F5_Maximum_License__c ]_vars

\* a notice with the text for a failed save is among the notices
SaveFailureNotice(notices) ==
    \E i \in 1..Len(notices) : notices[i].message.kind = "saveFailed"

\* C28: a notice with the text for a failed save is emitted only by the step
\* in which the persist call itself fails; once the persist call of a save
\* has succeeded, no step of that save emits one, whatever the refresh does.
C28_FailureNoticeMeansPersistFailed ==
    [][ SaveFailureNotice(toasts') =>
            /\ savePc = "persisting"
            /\ lastOp'.op = "handleSave:failed" ]_vars

\* C29: with every fetched quantity absent or a non-negative integer, in
\* every reachable state every year field of a category row of the grid and
\* every quantity of the pending-change set is null or a non-negative
\* integer, and every year field of the totals row is a non-negative integer.
C29_QuantitiesWellTyped ==
    /\ \A i \in 1..Len(gridData) : \A y \in DOMAIN gridData[i].years :
          IF gridData[i].id = TotalsRowId
          THEN gridData[i].years[y].t = "number" /\ gridData[i].years[y].v \in Nat
          ELSE IsQuantity(gridData[i].years[y])
    /\ \A i \in 1..Len(pendingChanges) : IsQuantity(pendingChanges[i].value.quantity)

\* a negative number entered in a cell that the records hold a quantity for
C29_Witness ==
    /\ lastOp.op = "handleDraftValueChange:applied"
    /\ lastOp.arg = << Draft("row-0", << Cell(1, Num(-1)) >>) >>
    /\ originalLicenseData # << >>
    /\ CellOf(gridData, "K", 1) = Num(0)
    /\ CellOf(gridData, "4", 1) = Null
    /\ TotalsRowOf(gridData).years[1] = Num(1)
    /\ pendingChanges[1].value.quantity = Null

\* C30: in every reachable state with a non-empty grid, the number N of year
\* columns of the current configuration is the number of year fields of each
\* category row and of the totals row, the fields being year 1..N, and the
\* range of years the Validator checks.
C30_OneYearCount ==
    gridData # << >> =>
        /\ \A i \in 1..Len(gridData) : DOMAIN gridData[i].years = 1..YearCount(configData)
        /\ MaxYears(configData) = YearCount(configData)
        /\ EditMaxYears(configData) = YearCount(configData)
====
